---- MODULE Spec2Model ----
(***************************************************************************)
(* A model of @leanstacks/lambda-utils: the configuration manager          *)
(* (createConfigManager), the process-wide AWS client singletons (SNS,     *)
(* SQS, Lambda, DynamoDB) and their send operations, the API Gateway       *)
(* response formatter and the logger.                                      *)
(*                                                                         *)
(* JavaScript values are tagged records; an object carries the heap        *)
(* reference `ref` that === compares, a primitive is compared by value.    *)
(***************************************************************************)
EXTENDS Integers, Sequences, FiniteSets, TLC

(***************************************************************************)
(* Bounds of the model.                                                    *)
(***************************************************************************)
\* number of objects schema.parse may allocate in one run
MaxRefs == 3
\* number of client objects the process may construct in one run
MaxHandles == 3

(***************************************************************************)
(* JavaScript values.                                                      *)
(***************************************************************************)
Undefined == [t |-> "undefined"]
Null == [t |-> "null"]
Bool(b) == [t |-> "boolean", b |-> b]
Str(s) == [t |-> "string", s |-> s]
Num(n) == [t |-> "number", n |-> n]
Prop(k, v) == [k |-> k, v |-> v]
Obj(ref, props) == [t |-> "object", ref |-> ref, props |-> props]

\* ToBoolean, as `!cache` and `x || y` apply it
Truthy(v) ==
  CASE v.t = "undefined" -> FALSE
    [] v.t = "null" -> FALSE
    [] v.t = "boolean" -> v.b
    [] v.t = "string" -> v.s # ""
    [] OTHER -> TRUE

\* x ?? y
Coalesce(x, y) == IF x.t \in {"undefined", "null"} THEN y ELSE x

\* Array.prototype.join on an array of strings
RECURSIVE Join(_, _)
Join(strs, sep) ==
  IF Len(strs) = 0 THEN ""
  ELSE IF Len(strs) = 1 THEN strs[1]
  ELSE strs[1] \o sep \o Join(Tail(strs), sep)

\* JSON.stringify of the values the callers pass (strings without characters
\* to escape): a property whose value is undefined is left out, and undefined
\* itself serializes to undefined, not to a string
RECURSIVE JSONText(_)
JSONText(v) ==
  CASE v.t = "null" -> "null"
    [] v.t = "boolean" -> IF v.b THEN "true" ELSE "false"
    [] v.t = "number" -> ToString(v.n)
    [] v.t = "string" -> "\"" \o v.s \o "\""
    [] v.t = "object" ->
         LET kept == SelectSeq(v.props, LAMBDA p : p.v.t # "undefined")
             member(p) == "\"" \o p.k \o "\":" \o JSONText(p.v)
         IN "{" \o Join([i \in 1..Len(kept) |-> member(kept[i])], ",") \o "}"

JSONStringify(v) == IF v.t = "undefined" THEN Undefined ELSE Str(JSONText(v))

(***************************************************************************)
(* process.env and the schemas the callers supply.                         *)
(***************************************************************************)
EnvNames == {"TABLE_NAME", "ENABLED"}

\* the values the caller's code gives each variable; Undefined is "not set"
EnvValues(name) ==
  IF name = "TABLE_NAME" THEN {Undefined, Str(""), Str("orders")}
  ELSE {Undefined, Str("true"), Str("false"), Str("maybe")}

\* The field rules of zod the schemas below are built from.
\*   min1      z.string().min(1)
\*   flagDflt  z.enum(['true','false']).default('false')
\*   flagBool  z.enum(['true','false']).transform((val) => val === 'true')
\*   json      z.string().transform((val) => JSON.parse(val))
Field(name, rule) == [name |-> name, rule |-> rule]

\* z.object({...}) of the field rules, then an optional .transform of the whole
Schemas ==
  [ table  |-> [fields |-> <<Field("TABLE_NAME", "min1"), Field("ENABLED", "flagDflt")>>,
                pick |-> ""],
    strict |-> [fields |-> <<Field("TABLE_NAME", "min1"), Field("ENABLED", "flagBool")>>,
                pick |-> ""],
    flag   |-> [fields |-> <<Field("ENABLED", "flagBool")>>,
                pick |-> "ENABLED"],
    json   |-> [fields |-> <<Field("ENABLED", "json")>>,
                pick |-> ""] ]

SchemaNames == DOMAIN Schemas

Issue(path, message) == [path |-> path, message |-> message]

\* one field of z.object: [ok, value] or [ok = FALSE, issue], or a thrown error
ParseField(f, e) ==
  LET raw == e[f.name] IN
  CASE f.rule = "min1" ->
         IF raw = Undefined THEN [k |-> "issue", issue |-> Issue(<<f.name>>, "Required")]
         ELSE IF raw.s = "" THEN
           [k |-> "issue",
            issue |-> Issue(<<f.name>>, "String must contain at least 1 character(s)")]
         ELSE [k |-> "ok", value |-> raw]
    [] f.rule = "flagDflt" ->
         IF raw = Undefined THEN [k |-> "ok", value |-> Str("false")]
         ELSE IF raw.s \in {"true", "false"} THEN [k |-> "ok", value |-> raw]
         ELSE [k |-> "issue", issue |-> Issue(<<f.name>>, "Invalid enum value")]
    [] f.rule = "flagBool" ->
         IF raw = Undefined THEN [k |-> "issue", issue |-> Issue(<<f.name>>, "Required")]
         ELSE IF raw.s \in {"true", "false"} THEN [k |-> "ok", value |-> Bool(raw.s = "true")]
         ELSE [k |-> "issue", issue |-> Issue(<<f.name>>, "Invalid enum value")]
    [] OTHER ->
         IF raw = Undefined THEN [k |-> "issue", issue |-> Issue(<<f.name>>, "Required")]
         ELSE IF raw.s \in {"true", "false"} THEN [k |-> "ok", value |-> Bool(raw.s = "true")]
         ELSE [k |-> "throw", error |-> [name |-> "SyntaxError", message |-> "Unexpected token"]]

RECURSIVE FieldIssues(_, _)
FieldIssues(fields, e) ==
  IF Len(fields) = 0 THEN <<>>
  ELSE LET r == ParseField(Head(fields), e) IN
       (IF r.k = "issue" THEN <<r.issue>> ELSE <<>>) \o FieldIssues(Tail(fields), e)

RECURSIVE FieldProps(_, _)
FieldProps(fields, e) ==
  IF Len(fields) = 0 THEN <<>>
  ELSE <<Prop(Head(fields).name, ParseField(Head(fields), e).value)>>
         \o FieldProps(Tail(fields), e)

\* schema.parse(process.env): the parsed value (a new object, at heap reference
\* `ref`, or what the schema's transform picks out of it), a ZodError carrying
\* every issue in field order, or the error a transform threw
SchemaParse(schema, e, ref) ==
  LET fields == Schemas[schema].fields
      thrown == {i \in 1..Len(fields) : ParseField(fields[i], e).k = "throw"}
      issues == FieldIssues(fields, e)
  IN IF thrown # {} THEN
       [k |-> "throw", error |-> ParseField(fields[CHOOSE i \in thrown : TRUE], e).error]
     ELSE IF Len(issues) > 0 THEN
       [k |-> "throw", error |-> [name |-> "ZodError", issues |-> issues]]
     ELSE IF Schemas[schema].pick # "" THEN
       [k |-> "return", value |-> FieldProps(fields, e)[1].v]
     ELSE [k |-> "return", value |-> Obj(ref, FieldProps(fields, e))]

(***************************************************************************)
(* createConfigManager                                                      *)
(***************************************************************************)
Managers == {"m1", "m2"}
NoSchema == "none"

VARIABLES
  env,        \* process.env
  mgrSchema,  \* the schema each created manager closes over
  cache,      \* the `cache` each manager closes over
  nextRef,    \* the heap reference the next allocated object gets
  firstGot,   \* what a manager's first successful get() since its last refresh() returned
  last        \* each manager's latest call: how it ended, and what the caller held before

cfgVars == <<env, mgrSchema, cache, nextRef, firstGot, last>>

VARIABLES
  slot,             \* the module-level snsClient, sqsClient and lambdaClient
  dynamoClient,     \* the module-level dynamoClient
  dynamoDocClient,  \* the module-level dynamoDocClient
  nextHandle,       \* the heap reference the next constructed client gets
  ret,              \* the latest call of a client function, and how it ended
  prior,            \* per client variable, the function last called on it and the handle it
                    \* returned (for a reset: the handle it dropped)
  firstGet,         \* per client variable, what the first getter call since the last
                    \* initialize or reset returned
  dynGiven          \* what the latest initializeDynamoDBClients since the last reset returned

clientVars == <<slot, dynamoClient, dynamoDocClient, nextHandle, ret, prior, firstGet, dynGiven>>

VARIABLES
  inv               \* per invocation of the handler, the send operation it last called

sendVars == <<inv>>

VARIABLES
  resp              \* the latest call of a response function: its arguments and result

respVars == <<resp>>

VARIABLES
  _loggerConfig,    \* logger.ts: the module-level _loggerConfig
  _loggerInstance,  \* logger.ts: the module-level _loggerInstance
  logger,           \* logger.ts: the exported `logger`, bound when the module loads
  wrappers,         \* the Logger objects the callers hold
  nextLogger,       \* the heap reference the next pino instance gets
  loggerCall        \* the latest call into the logger module, and how it ended

loggerVars == <<_loggerConfig, _loggerInstance, logger, wrappers, nextLogger, loggerCall>>
utilVars == <<respVars, loggerVars>>
vars == <<cfgVars, clientVars, sendVars, utilVars>>

\* `${issue.path.join('.')}: ${issue.message}`
IssueText(issue) == Join(issue.path, ".") \o ": " \o issue.message

\* error.issues.map(...)
RECURSIVE IssueTexts(_)
IssueTexts(issues) ==
  IF Len(issues) = 0 THEN <<>> ELSE <<IssueText(Head(issues))>> \o IssueTexts(Tail(issues))

\* a message that reports the first issue only
ErrorMessage_FirstOnly(issues) ==
  "Configuration validation failed: " \o IssueText(issues[1])

\* the message of the Error thrown for a ZodError
ErrorMessage(issues) ==
  "Configuration validation failed: " \o Join(IssueTexts(issues), ", ")

\* a _validateConfig that reformats whatever schema.parse throws
ValidateConfig_WrapAll(schema, e, ref) ==
  LET r == SchemaParse(schema, e, ref) IN
  IF r.k = "throw" THEN
    [k |-> "throw",
     error |-> [name |-> "Error",
                message |-> IF r.error.name = "ZodError" THEN ErrorMessage(r.error.issues)
                            ELSE "Configuration validation failed: " \o r.error.message]]
  ELSE r

\* _validateConfig: schema.parse(process.env), a ZodError rethrown as an Error
\* with the issues formatted, any other error rethrown as it is
ValidateConfig(schema, e, ref) ==
  LET r == SchemaParse(schema, e, ref) IN
  IF r.k = "throw" /\ r.error.name = "ZodError" THEN
    [k |-> "throw", error |-> [name |-> "Error", message |-> ErrorMessage(r.error.issues)]]
  ELSE r

\* the record of a call: r is how it ended, validated whether it ran
\* _validateConfig, held the snapshot the manager's calls last returned before
\* it, prev the operation and ending of the manager's call before it
NoCall == [op |-> "none", k |-> "none", held |-> Undefined]
Called(m, op, r, validated) ==
  [op |-> op, validated |-> validated,
   held |-> IF last[m].k = "return" THEN last[m].value ELSE last[m].held,
   prev |-> <<last[m].op, last[m].k>>] @@ r

\* createConfigManager(schema): `let cache = null`, nothing validated
CreateConfigManager(m, s) ==
  /\ mgrSchema[m] = NoSchema
  /\ mgrSchema' = [mgrSchema EXCEPT ![m] = s]
  /\ cache' = [cache EXCEPT ![m] = Null]
  /\ UNCHANGED <<env, nextRef, firstGot, last, clientVars, sendVars, utilVars>>

\* the caller's code changing process.env between calls
SetEnv(name, v) ==
  /\ env[name] # v
  /\ env' = [env EXCEPT ![name] = v]
  /\ UNCHANGED <<mgrSchema, cache, nextRef, firstGot, last, clientVars, sendVars, utilVars>>

\* the heap after a call that evaluated schema.parse with outcome r
Allocated(r) ==
  IF r.k = "return" /\ r.value.t = "object" /\ r.value.ref = nextRef
  THEN nextRef + 1 ELSE nextRef

\* a get that validates on every call, as if the cache test were missing
GetMustValidate_Always(m) == TRUE

\* a get that validates once only, as if a flag were set before validating
GetMustValidate_Once(m) == ~Truthy(cache[m]) /\ last[m].k # "throw"

\* get: if (!cache) { cache = _validateConfig(); } return cache;
GetMustValidate(m) == ~Truthy(cache[m])

\* an assignment that empties the cache when validation throws
Assigned_ClearOnThrow(c, r) == IF r.k = "return" THEN r.value ELSE Null

\* an assignment that keeps a snapshot already cached
Assigned_KeepCached(c, r) == IF Truthy(c) \/ r.k # "return" THEN c ELSE r.value

\* cache = _validateConfig(): a throw leaves the assignment undone
Assigned(c, r) == IF r.k = "return" THEN r.value ELSE c

\* one cache for every manager, as if `cache` were declared at module level
Stored_Shared(m, v) == [x \in Managers |-> v]

\* the `cache` that manager m's get and refresh close over, assigned v
Stored(m, v) == [cache EXCEPT ![m] = v]

Get(m) ==
  /\ mgrSchema[m] # NoSchema
  /\ GetMustValidate(m) => nextRef <= MaxRefs
  /\ LET validated == GetMustValidate(m)
         v == ValidateConfig(mgrSchema[m], env, nextRef)
         stored == IF validated THEN Assigned(cache[m], v) ELSE cache[m]
         r == IF validated /\ v.k = "throw" THEN v ELSE [k |-> "return", value |-> stored]
     IN /\ cache' = Stored(m, stored)
        /\ nextRef' = IF validated THEN Allocated(v) ELSE nextRef
        /\ last' = [last EXCEPT ![m] = Called(m, "get", r, validated)]
        /\ firstGot' = IF r.k = "return" /\ firstGot[m] = Undefined
                       THEN [firstGot EXCEPT ![m] = r.value] ELSE firstGot
  /\ UNCHANGED <<env, mgrSchema, clientVars, sendVars, utilVars>>

\* refresh: cache = _validateConfig(); return cache;
Refresh(m) ==
  /\ mgrSchema[m] # NoSchema
  /\ nextRef <= MaxRefs
  /\ LET v == ValidateConfig(mgrSchema[m], env, nextRef)
         stored == Assigned(cache[m], v)
         r == IF v.k = "throw" THEN v ELSE [k |-> "return", value |-> stored]
     IN /\ cache' = Stored(m, stored)
        /\ nextRef' = Allocated(v)
        /\ last' = [last EXCEPT ![m] = Called(m, "refresh", r, TRUE)]
  /\ firstGot' = [firstGot EXCEPT ![m] = Undefined]
  /\ UNCHANGED <<env, mgrSchema, clientVars, sendVars, utilVars>>

(***************************************************************************)
(* The client singletons: sns-client.ts, sqs-client.ts, lambda-client.ts   *)
(* and dynamodb-client.ts.                                                  *)
(***************************************************************************)
ClientVars == {"snsClient", "sqsClient", "lambdaClient"}

ClassOf(var) ==
  CASE var = "snsClient" -> "SNSClient"
    [] var = "sqsClient" -> "SQSClient"
    [] OTHER -> "LambdaClient"

EmptyObject == Obj(0, <<>>)

\* the configurations and translate options the callers pass
ClientConfigs == {Undefined, Obj(0, <<Prop("region", Str("us-east-1"))>>)}
MarshallOptions ==
  {Undefined, Obj(0, <<Prop("removeUndefinedValues", Bool(TRUE))>>),
   Obj(0, <<Prop("convertEmptyValues", Bool(TRUE))>>)}
UnmarshallOptions ==
  {Undefined, Obj(0, <<Prop("wrapNumbers", Bool(FALSE))>>),
   Obj(0, <<Prop("wrapNumbers", Bool(TRUE))>>)}

\* x || {}
OrEmpty(x) == IF Truthy(x) THEN x ELSE EmptyObject

\* new SNSClient(config), new SQSClient(config), new LambdaClient(config),
\* new DynamoDBClient(config): a new object at heap reference ref
NewClient(class, ref, config) ==
  [t |-> "object", class |-> class, ref |-> ref, config |-> config]

\* a document client built on a base client of its own
DocumentClientFrom_OwnBase(client, translateConfig, ref) ==
  [t |-> "object", class |-> "DynamoDBDocumentClient", ref |-> ref,
   client |-> NewClient("DynamoDBClient", ref, client.config),
   translateConfig |-> translateConfig]

\* DynamoDBDocumentClient.from(client, translateConfig)
DocumentClientFrom(client, translateConfig, ref) ==
  [t |-> "object", class |-> "DynamoDBDocumentClient", ref |-> ref,
   client |-> client, translateConfig |-> translateConfig]

NoPrior == [fn |-> "none", value |-> Undefined]
Returned(var, fn, created, value) ==
  [var |-> var, fn |-> fn, k |-> "return", created |-> created, value |-> value]
\* a call on one of the client variables: also the function called on it before
\* (after) and the handle that call returned or dropped (held)
ReturnedOn(var, fn, created, value) ==
  [after |-> prior[var].fn, held |-> prior[var].value] @@ Returned(var, fn, created, value)
Threw(var, fn, message) ==
  [var |-> var, fn |-> fn, k |-> "throw", created |-> FALSE,
   error |-> [name |-> "Error", message |-> message]]

\* an initialize that keeps a client already in the slot
InitializedClient_KeepExisting(var, config) ==
  IF Truthy(slot[var]) THEN slot[var]
  ELSE NewClient(ClassOf(var), nextHandle, OrEmpty(config))

\* the client initializeSNSClient, initializeSQSClient and initializeLambdaClient
\* construct: new XClient(config || {})
InitializedClient(var, config) == NewClient(ClassOf(var), nextHandle, OrEmpty(config))

\* the effect of initializeSNSClient / initializeSQSClient / initializeLambdaClient
\* on the module's state: xClient = new XClient(config || {})
Initializing(var, config) ==
  /\ nextHandle <= MaxHandles
  /\ slot' = [slot EXCEPT ![var] = InitializedClient(var, config)]
  /\ nextHandle' = IF slot'[var].ref = nextHandle THEN nextHandle + 1 ELSE nextHandle

\* a getter that constructs a client on every call
GetterCreates_Always(var) == TRUE

\* getSNSClient / getSQSClient / getLambdaClient: if (!xClient)
GetterCreates(var) == ~Truthy(slot[var])

\* the effect of getSNSClient / getSQSClient / getLambdaClient on the module's
\* state: if (!xClient) { xClient = new XClient({}); }; slot'[var] is returned
Getting(var) ==
  /\ GetterCreates(var) => nextHandle <= MaxHandles
  /\ slot' = [slot EXCEPT ![var] = IF GetterCreates(var)
                                  THEN NewClient(ClassOf(var), nextHandle, EmptyObject)
                                  ELSE slot[var]]
  /\ nextHandle' = IF GetterCreates(var) THEN nextHandle + 1 ELSE nextHandle

\* a reset that leaves the client in the slot
ResetValue_Keep(var) == slot[var]

\* what resetSNSClient / resetSQSClient / resetLambdaClient assign: xClient = null
ResetValue(var) == Null

\* the effect of resetSNSClient / resetSQSClient / resetLambdaClient
Resetting(var) ==
  /\ slot' = [slot EXCEPT ![var] = ResetValue(var)]
  /\ UNCHANGED nextHandle

\* The calls as their caller sees them: ret, prior and firstGet record what
\* each call returned.

\* initializeSNSClient / initializeSQSClient / initializeLambdaClient
InitializeClient(var, config) ==
  /\ Initializing(var, config)
  /\ ret' = ReturnedOn(var, "initialize", slot'[var].ref = nextHandle, slot'[var])
  /\ prior' = [prior EXCEPT ![var] = [fn |-> "initialize", value |-> slot'[var]]]
  /\ firstGet' = [firstGet EXCEPT ![var] = Undefined]
  /\ UNCHANGED <<dynamoClient, dynamoDocClient, dynGiven, cfgVars, utilVars, sendVars>>

\* getSNSClient / getSQSClient / getLambdaClient
GetClient(var) ==
  /\ Getting(var)
  /\ ret' = ReturnedOn(var, "get", GetterCreates(var), slot'[var])
  /\ prior' = [prior EXCEPT ![var] = [fn |-> "get", value |-> slot'[var]]]
  /\ firstGet' = IF firstGet[var] = Undefined
                 THEN [firstGet EXCEPT ![var] = slot'[var]] ELSE firstGet
  /\ UNCHANGED <<dynamoClient, dynamoDocClient, dynGiven, cfgVars, utilVars, sendVars>>

\* resetSNSClient / resetSQSClient / resetLambdaClient
ResetClient(var) ==
  /\ Resetting(var)
  /\ ret' = ReturnedOn(var, "reset", FALSE, Undefined)
  /\ prior' = [prior EXCEPT ![var] = [fn |-> "reset", value |-> slot[var]]]
  /\ firstGet' = [firstGet EXCEPT ![var] = Undefined]
  /\ UNCHANGED <<dynamoClient, dynamoDocClient, dynGiven, cfgVars, utilVars, sendVars>>

initializeSNSClient(config) == InitializeClient("snsClient", config)
getSNSClient == GetClient("snsClient")
resetSNSClient == ResetClient("snsClient")
initializeSQSClient(config) == InitializeClient("sqsClient", config)
getSQSClient == GetClient("sqsClient")
resetSQSClient == ResetClient("sqsClient")
initializeLambdaClient(config) == InitializeClient("lambdaClient", config)
getLambdaClient == GetClient("lambdaClient")
resetLambdaClient == ResetClient("lambdaClient")

\* initializeDynamoDBClients(config, marshallOptions, unmarshallOptions)
initializeDynamoDBClients(config, marshallOptions, unmarshallOptions) ==
  /\ nextHandle + 1 <= 2 * MaxHandles   \* a call constructs two handles
  /\ LET base == NewClient("DynamoDBClient", nextHandle, OrEmpty(config))
         translateConfig == [marshallOptions |-> OrEmpty(marshallOptions),
                             unmarshallOptions |-> OrEmpty(unmarshallOptions)]
         doc == DocumentClientFrom(base, translateConfig, nextHandle + 1)
         both == [client |-> base, documentClient |-> doc]
     IN /\ dynamoClient' = base
        /\ dynamoDocClient' = doc
        /\ nextHandle' = nextHandle + 2
        /\ ret' = Returned("dynamo", "initialize", TRUE, both)
        /\ dynGiven' = both
  /\ UNCHANGED <<slot, prior, firstGet, cfgVars, utilVars, sendVars>>

\* a getter of the DynamoDB client that constructs one when the slot is empty
DynamoGetterThrows_Never(c) == FALSE

\* getDynamoDBClient / getDynamoDBDocumentClient: if (!client) throw
DynamoGetterThrows(c) == ~Truthy(c)

getDynamoDBClient ==
  /\ ret' = IF DynamoGetterThrows(dynamoClient)
            THEN Threw("dynamo", "getDynamoDBClient",
                       "DynamoDB client not initialized. Call initializeDynamoDBClients() first.")
            ELSE Returned("dynamo", "getDynamoDBClient", FALSE, dynamoClient)
  /\ UNCHANGED <<slot, dynamoClient, dynamoDocClient, nextHandle, prior, firstGet, dynGiven, cfgVars, utilVars, sendVars>>

getDynamoDBDocumentClient ==
  /\ ret' = IF DynamoGetterThrows(dynamoDocClient)
            THEN Threw("dynamo", "getDynamoDBDocumentClient",
                       "DynamoDB Document client not initialized. Call initializeDynamoDBClients() first.")
            ELSE Returned("dynamo", "getDynamoDBDocumentClient", FALSE, dynamoDocClient)
  /\ UNCHANGED <<slot, dynamoClient, dynamoDocClient, nextHandle, prior, firstGet, dynGiven, cfgVars, utilVars, sendVars>>

\* resetDynamoDBClients
resetDynamoDBClients ==
  /\ dynamoClient' = Null
  /\ dynamoDocClient' = Null
  /\ ret' = Returned("dynamo", "reset", FALSE, Undefined)
  /\ dynGiven' = Undefined
  /\ UNCHANGED <<slot, nextHandle, prior, firstGet, cfgVars, utilVars, sendVars>>

(***************************************************************************)
(* The send operations: publishToTopic and sendToQueue.  An operation runs *)
(* to its `await client.send(command)` in one step and is resumed by the   *)
(* platform's answer in another; other invocations run in between.         *)
(***************************************************************************)
Invocations == {"i1", "i2"}

\* what the callers pass
TopicArns == {"arn:aws:sns:us-east-1:123456789012:MyTopic"}
QueueUrls == {"https://sqs.us-east-1.amazonaws.com/123456789012/MyQueue"}
\* a message with its message attributes
SendInputs ==
  {<<Obj(0, <<>>), Undefined>>,
   <<Obj(0, <<Prop("orderId", Str("12345")), Prop("note", Undefined)>>),
     Obj(0, <<Prop("priority",
                   Obj(0, <<Prop("DataType", Str("String")), Prop("StringValue", Str("high"))>>))>>)>>}
\* the configuration another invocation initializes a client with meanwhile
SendConfigs == {Obj(0, <<Prop("region", Str("us-east-1"))>>)}

\* what the platform answers: a response, or a failure of the transport
MessageIds == {Undefined, Str("msg-0001")}
TransportErrors == {[name |-> "ServiceUnavailable", message |-> "Service unavailable"]}
SendAnswers ==
  {[k |-> "return", value |-> [MessageId |-> id]] : id \in MessageIds}
    \cup {[k |-> "throw", error |-> e] : e \in TransportErrors}

\* new PublishCommand({ TopicArn, Message: JSON.stringify(message), MessageAttributes })
PublishCommand(topicArn, message, attributes) ==
  [class |-> "PublishCommand",
   input |-> [TopicArn |-> Str(topicArn), Message |-> JSONStringify(message),
              MessageAttributes |-> attributes]]

\* new SendMessageCommand({ QueueUrl, MessageBody: JSON.stringify(message), MessageAttributes })
SendMessageCommand(queueUrl, message, attributes) ==
  [class |-> "SendMessageCommand",
   input |-> [QueueUrl |-> Str(queueUrl), MessageBody |-> JSONStringify(message),
              MessageAttributes |-> attributes]]

Idle == [pc |-> "idle"]

\* an operation suspended at `await client.send(command)`: the handle it
\* obtained and the requests it has issued on it
Awaiting(op, client, command) ==
  [pc |-> "awaiting", op |-> op, client |-> client,
   sent |-> <<[client |-> client, command |-> command]>>]

\* publishToTopic, to its await
publishToTopic(i, topicArn, message, attributes) ==
  /\ inv[i].pc # "awaiting"
  /\ Getting("snsClient")
  /\ UNCHANGED <<dynamoClient, dynamoDocClient, ret, prior, firstGet, dynGiven, cfgVars, utilVars>>
  /\ inv' = [inv EXCEPT ![i] = Awaiting("publishToTopic", slot'["snsClient"],
                                       PublishCommand(topicArn, message, attributes))]

\* sendToQueue, to its await
sendToQueue(i, queueUrl, message, attributes) ==
  /\ inv[i].pc # "awaiting"
  /\ Getting("sqsClient")
  /\ UNCHANGED <<dynamoClient, dynamoDocClient, ret, prior, firstGet, dynGiven, cfgVars, utilVars>>
  /\ inv' = [inv EXCEPT ![i] = Awaiting("sendToQueue", slot'["sqsClient"],
                                       SendMessageCommand(queueUrl, message, attributes))]

\* a result that hands the response's MessageId on as it is
MessageIdOf_Raw(response) == response.MessageId

\* return response.MessageId ?? ''
MessageIdOf(response) == Coalesce(response.MessageId, Str(""))

\* the client variable an operation reads through its getter: getSNSClient()
\* in publishToTopic, getSQSClient() in sendToQueue, getLambdaClient() in
\* invokeLambdaSync and invokeLambdaAsync
SlotOf(op) ==
  CASE op = "publishToTopic" -> "snsClient"
    [] op = "sendToQueue" -> "sqsClient"
    [] OTHER -> "lambdaClient"

\* an operation that takes the handle from the slot again when it resumes
Settled_OnSlotHandle(call, answer, outcome) ==
  [pc |-> "settled", op |-> call.op, client |-> slot[SlotOf(call.op)], sent |-> call.sent,
   answer |-> answer, replaced |-> slot[SlotOf(call.op)] # call.client] @@ outcome

\* an operation that has run to its end: what the platform answered and how the
\* operation's promise settled.  `client` is the local `const client` of the
\* operation, assigned once before the await; replaced records whether the
\* slot held something else than that handle when the operation resumed
Settled(call, answer, outcome) ==
  [pc |-> "settled", op |-> call.op, client |-> call.client, sent |-> call.sent,
   answer |-> answer, replaced |-> slot[SlotOf(call.op)] # call.client] @@ outcome

\* an operation that drops the client of its kind when its request fails
SlotAfter_ClearOnFailure(call, answer) ==
  IF answer.k = "throw" THEN [slot EXCEPT ![SlotOf(call.op)] = Null] ELSE slot

\* the client variables once an operation has resumed: no operation assigns
\* one after its await, whatever the answer
SlotAfter(call, answer) == slot

\* an operation that sends its request once more when the transport fails
TransportFailed_Retry(call, answer) ==
  IF Len(call.sent) = 1
  THEN [call EXCEPT !.sent = Append(@, @[1])]
  ELSE Settled(call, answer, [k |-> "reject", error |-> answer.error])

\* `await client.send(command)` rejects: no operation has a try/catch around
\* it, so the operation's promise rejects with the same error
TransportFailed(call, answer) ==
  Settled(call, answer, [k |-> "reject", error |-> answer.error])

\* the rest of publishToTopic and sendToQueue, once client.send has settled
SendSettles(i, answer) ==
  /\ inv[i].pc = "awaiting"
  /\ inv[i].op \in {"publishToTopic", "sendToQueue"}
  /\ inv' = [inv EXCEPT ![i] =
       IF answer.k = "throw"
       THEN TransportFailed(inv[i], answer)
       ELSE Settled(inv[i], answer, [k |-> "resolve", value |-> MessageIdOf(answer.value)])]
  /\ slot' = SlotAfter(inv[i], answer)
  /\ UNCHANGED <<dynamoClient, dynamoDocClient, nextHandle, ret, prior, firstGet, dynGiven,
                 cfgVars, utilVars>>

(***************************************************************************)
(* invokeLambdaSync and invokeLambdaAsync.                                 *)
(***************************************************************************)
FunctionNames == {"my-function-name"}
\* the payloads the callers pass
InvokePayloads ==
  {Undefined, Obj(0, <<Prop("key", Str("value")), Prop("trace", Undefined)>>)}

\* a Uint8Array holding the UTF-8 bytes of text; as an object it is truthy
\* whatever its length
Bytes(text) == [t |-> "bytes", text |-> text]

\* new TextDecoder().decode(bytes)
TextDecode(bytes) == bytes.text

\* the values whose JSON texts the invoked functions answer with
JSONValues ==
  {Null, Bool(FALSE), Str(""), Obj(0, <<Prop("result", Str("success"))>>)}

\* JSON.parse: the value a JSON text denotes, or a SyntaxError
JSONParse(text) ==
  IF \E v \in JSONValues : JSONText(v) = text
  THEN [k |-> "return", value |-> CHOOSE v \in JSONValues : JSONText(v) = text]
  ELSE [k |-> "throw",
        error |-> [name |-> "SyntaxError",
                   message |-> IF text = "" THEN "Unexpected end of JSON input"
                               ELSE "Unexpected token in JSON"]]

\* what the platform answers to an Invoke request
FunctionErrors == {Undefined, Str("Unhandled")}
ResponsePayloads ==
  {Undefined, Bytes(""), Bytes("not json"), Bytes("null"), Bytes("\"\""),
   Bytes("{\"result\":\"success\"}")}
InvokeAnswers ==
  {[k |-> "return", value |-> [FunctionError |-> fe, Payload |-> p]] :
     fe \in FunctionErrors, p \in ResponsePayloads}
    \cup {[k |-> "throw", error |-> e] : e \in TransportErrors}

\* new InvokeCommand({ FunctionName, InvocationType, Payload: JSON.stringify(payload) })
InvokeCommand(functionName, invocationType, payload) ==
  [class |-> "InvokeCommand",
   input |-> [FunctionName |-> Str(functionName), InvocationType |-> Str(invocationType),
              Payload |-> JSONStringify(payload)]]

\* an asynchronous invocation sent as a synchronous one
InvokeAsyncCommand_RequestResponse(functionName, payload) ==
  InvokeCommand(functionName, "RequestResponse", payload)

\* the command invokeLambdaSync builds
InvokeSyncCommand(functionName, payload) ==
  InvokeCommand(functionName, "RequestResponse", payload)

\* the command invokeLambdaAsync builds
InvokeAsyncCommand(functionName, payload) ==
  InvokeCommand(functionName, "Event", payload)

\* invokeLambdaSync, to its await
invokeLambdaSync(i, functionName, payload) ==
  /\ inv[i].pc # "awaiting"
  /\ Getting("lambdaClient")
  /\ UNCHANGED <<dynamoClient, dynamoDocClient, ret, prior, firstGet, dynGiven, cfgVars, utilVars>>
  /\ inv' = [inv EXCEPT ![i] = Awaiting("invokeLambdaSync", slot'["lambdaClient"],
                                       InvokeSyncCommand(functionName, payload))]

\* invokeLambdaAsync, to its await
invokeLambdaAsync(i, functionName, payload) ==
  /\ inv[i].pc # "awaiting"
  /\ Getting("lambdaClient")
  /\ UNCHANGED <<dynamoClient, dynamoDocClient, ret, prior, firstGet, dynGiven, cfgVars, utilVars>>
  /\ inv' = [inv EXCEPT ![i] = Awaiting("invokeLambdaAsync", slot'["lambdaClient"],
                                       InvokeAsyncCommand(functionName, payload))]

\* an error that leaves the marker out of its message
FunctionErrorThrown_NoMarker(response) ==
  [name |-> "Error", message |-> "Lambda function error"]

\* new Error(`Lambda function error: ${response.FunctionError}`)
FunctionErrorThrown(response) ==
  [name |-> "Error", message |-> "Lambda function error: " \o response.FunctionError.s]

\* response.Payload ? JSON.parse(new TextDecoder().decode(response.Payload)) : null
ResponsePayloadOf(response) ==
  IF Truthy(response.Payload)
  THEN JSONParse(TextDecode(response.Payload))
  ELSE [k |-> "return", value |-> Null]

\* an invokeLambdaSync that deserializes the payload before it looks at the
\* function error
InvokeOutcome_PayloadFirst(op, response) ==
  LET parsed == ResponsePayloadOf(response)
  IN IF op = "invokeLambdaSync" /\ parsed.k = "throw"
     THEN [k |-> "reject", error |-> parsed.error]
     ELSE IF Truthy(response.FunctionError)
     THEN [k |-> "reject", error |-> FunctionErrorThrown(response)]
     ELSE IF op = "invokeLambdaAsync"
     THEN [k |-> "resolve", value |-> Undefined]
     ELSE [k |-> "resolve", value |-> parsed.value]

\* how the operation's promise settles on a response: the function error is
\* checked first; invokeLambdaSync then returns the parsed payload and
\* invokeLambdaAsync returns nothing
InvokeOutcome(op, response) ==
  IF Truthy(response.FunctionError)
  THEN [k |-> "reject", error |-> FunctionErrorThrown(response)]
  ELSE IF op = "invokeLambdaAsync"
  THEN [k |-> "resolve", value |-> Undefined]
  ELSE LET parsed == ResponsePayloadOf(response)
       IN IF parsed.k = "throw"
          THEN [k |-> "reject", error |-> parsed.error]
          ELSE [k |-> "resolve", value |-> parsed.value]

\* the rest of invokeLambdaSync and invokeLambdaAsync, once client.send has
\* settled
InvokeSettles(i, answer) ==
  /\ inv[i].pc = "awaiting"
  /\ inv[i].op \in {"invokeLambdaSync", "invokeLambdaAsync"}
  /\ inv' = [inv EXCEPT ![i] =
       IF answer.k = "throw"
       THEN TransportFailed(inv[i], answer)
       ELSE Settled(inv[i], answer, InvokeOutcome(inv[i].op, answer.value))]
  /\ slot' = SlotAfter(inv[i], answer)
  /\ UNCHANGED <<dynamoClient, dynamoDocClient, nextHandle, ret, prior, firstGet, dynGiven,
                 cfgVars, utilVars>>

\* another invocation's initializeSNSClient / initializeSQSClient /
\* initializeLambdaClient, run while operations are in flight
InitializeMeanwhile(var, config) ==
  /\ Initializing(var, config)
  /\ UNCHANGED <<dynamoClient, dynamoDocClient, ret, prior, firstGet, dynGiven, cfgVars, utilVars, sendVars>>

\* another invocation's resetSNSClient / resetSQSClient / resetLambdaClient,
\* run while operations are in flight
ResetMeanwhile(var) ==
  /\ Resetting(var)
  /\ UNCHANGED <<dynamoClient, dynamoDocClient, ret, prior, firstGet, dynGiven, cfgVars, utilVars, sendVars>>

(***************************************************************************)
(* The response formatter: apigateway-response.ts.  The functions are pure; *)
(* an action is one call of a function by the handler.  The identity of     *)
(* the objects involved is not tracked (reference 0).                       *)
(***************************************************************************)
\* what the callers pass
StatusCodes == {200, 404, 0, -1, 999}
Bodies ==
  {Undefined, Null, Str("x"), Obj(0, <<>>),
   Obj(0, <<Prop("a", Num(1)), Prop("gone", Undefined)>>)}
HeaderInputs ==
  {Undefined, Obj(0, <<>>), Obj(0, <<Prop("H", Str("v"))>>),
   Obj(0, <<Prop("Content-Type", Str("application/json")), Prop("X-Count", Num(3)),
            Prop("X-Flag", Bool(TRUE))>>)}
Messages == {Undefined, Str(""), Str("x")}

\* a default that also replaces an empty string, as `message || 'Bad Request'`
Default_Falsy(x, d) == IF Truthy(x) THEN x ELSE d

\* a parameter with a default value: the default stands in for undefined only
Default(x, d) == IF x = Undefined THEN d ELSE x

\* { ...headers }: a new object with the properties of headers
Spread(o) == Obj(0, o.props)

\* a createResponse that answers 500 for a status code outside 100..599
createResponse_ValidStatus(statusCode, body, headers) ==
  [statusCode |-> IF statusCode \in 100..599 THEN statusCode ELSE 500,
   headers |-> Spread(Default(headers, EmptyObject)),
   body |-> JSONStringify(body)]

createResponse(statusCode, body, headers) ==
  [statusCode |-> statusCode,
   headers |-> Spread(Default(headers, EmptyObject)),
   body |-> JSONStringify(body)]

ok(body, headers) == createResponse(200, body, Default(headers, EmptyObject))

created(body, headers) == createResponse(201, body, Default(headers, EmptyObject))

noContent(headers) == createResponse(204, EmptyObject, Default(headers, EmptyObject))

\* { message }
MessageBody(message) == Obj(0, <<Prop("message", message)>>)

badRequest(message, headers) ==
  createResponse(400, MessageBody(Default(message, Str("Bad Request"))),
                 Default(headers, EmptyObject))

notFound(message, headers) ==
  createResponse(404, MessageBody(Default(message, Str("Not Found"))),
                 Default(headers, EmptyObject))

internalServerError(message, headers) ==
  createResponse(500, MessageBody(Default(message, Str("Internal Server Error"))),
                 Default(headers, EmptyObject))

NoResponse == [fn |-> "none"]

\* the handler calls createResponse(statusCode, body, headers)
CallCreateResponse(statusCode, body, headers) ==
  /\ resp' = [fn |-> "createResponse", statusCode |-> statusCode, body |-> body,
              headers |-> headers, result |-> createResponse(statusCode, body, headers)]
  /\ UNCHANGED <<cfgVars, clientVars, sendVars, loggerVars>>

\* the handler calls ok(body, headers) or created(body, headers)
CallOk(body, headers) ==
  /\ resp' = [fn |-> "ok", body |-> body, headers |-> headers, result |-> ok(body, headers)]
  /\ UNCHANGED <<cfgVars, clientVars, sendVars, loggerVars>>

CallCreated(body, headers) ==
  /\ resp' = [fn |-> "created", body |-> body, headers |-> headers,
              result |-> created(body, headers)]
  /\ UNCHANGED <<cfgVars, clientVars, sendVars, loggerVars>>

\* the handler calls noContent(headers)
CallNoContent(headers) ==
  /\ resp' = [fn |-> "noContent", headers |-> headers, result |-> noContent(headers)]
  /\ UNCHANGED <<cfgVars, clientVars, sendVars, loggerVars>>

\* the handler calls badRequest, notFound or internalServerError
CallBadRequest(message, headers) ==
  /\ resp' = [fn |-> "badRequest", message |-> message, headers |-> headers,
              result |-> badRequest(message, headers)]
  /\ UNCHANGED <<cfgVars, clientVars, sendVars, loggerVars>>

CallNotFound(message, headers) ==
  /\ resp' = [fn |-> "notFound", message |-> message, headers |-> headers,
              result |-> notFound(message, headers)]
  /\ UNCHANGED <<cfgVars, clientVars, sendVars, loggerVars>>

CallInternalServerError(message, headers) ==
  /\ resp' = [fn |-> "internalServerError", message |-> message, headers |-> headers,
              result |-> internalServerError(message, headers)]
  /\ UNCHANGED <<cfgVars, clientVars, sendVars, loggerVars>>

(***************************************************************************)
(* The logger: logger.ts keeps one configuration and one pino instance at   *)
(* module level; the Logger class the package exports wraps one pino        *)
(* instance per object.                                                     *)
(***************************************************************************)
\* number of pino instances the process may construct in one run
MaxLoggers == 3

Wrappers == {"w1", "w2"}

\* a LoggerConfig object: an option left out reads as undefined
LoggerConfig(enabled, level, format) ==
  [enabled |-> enabled, level |-> level, format |-> format]

EmptyLoggerConfig == LoggerConfig(Undefined, Undefined, Undefined)

\* the configurations the callers pass
LoggerConfigs ==
  {EmptyLoggerConfig,
   LoggerConfig(Bool(FALSE), Undefined, Undefined),
   LoggerConfig(Undefined, Str("error"), Undefined),
   LoggerConfig(Undefined, Undefined, Str("text")),
   LoggerConfig(Bool(FALSE), Str("debug"), Str("text")),
   LoggerConfig(Bool(TRUE), Str("warn"), Str("json"))}

\* let _loggerConfig = { enabled: true, level: 'info', format: 'json' }
DefaultLoggerConfig == LoggerConfig(Bool(TRUE), Str("info"), Str("json"))

\* a merge that takes the default for every falsy option, as `x || default`
MergedConfig_Falsy(config) ==
  LoggerConfig(IF Truthy(config.enabled) THEN config.enabled ELSE Bool(TRUE),
               IF Truthy(config.level) THEN config.level ELSE Str("info"),
               IF Truthy(config.format) THEN config.format ELSE Str("json"))

\* { enabled: config.enabled ?? true, level: config.level ?? 'info',
\*   format: config.format ?? 'json' }
MergedConfig(config) ==
  LoggerConfig(Coalesce(config.enabled, Bool(TRUE)),
               Coalesce(config.level, Str("info")),
               Coalesce(config.format, Str("json")))

\* _createLogger: pino({ enabled, level }, pinoLambdaDestination({ formatter })),
\* a new object at heap reference ref
CreateLogger(config, ref) ==
  [t |-> "object", class |-> "pino", ref |-> ref,
   options |-> [enabled |-> config.enabled, level |-> config.level],
   destination |-> [formatter |-> IF config.format = Str("json")
                                  THEN "StructuredLogFormatter"
                                  ELSE "CloudwatchLogFormatter"]]

\* export const logger = _getLogger(), evaluated when the module loads: the
\* cache is empty, so the instance is created from the default configuration
LoadedLogger == CreateLogger(DefaultLoggerConfig, 1)

\* initializeLogger(config): stores the merged configuration and empties the
\* cached instance; the exported `logger` stays bound to what it was
initializeLogger(config) ==
  /\ _loggerConfig' = MergedConfig(config)
  /\ _loggerInstance' = Null
  /\ loggerCall' = [fn |-> "initializeLogger", config |-> config]
  /\ UNCHANGED <<logger, wrappers, nextLogger, cfgVars, clientVars, sendVars, respVars>>

NoWrapper == [made |-> FALSE]

\* new Logger(config): the wrapper holds the configuration merged with the
\* defaults and no instance yet; builds counts the pino instances it constructs
NewLogger(w, config) ==
  /\ wrappers[w] = NoWrapper
  /\ wrappers' = [wrappers EXCEPT ![w] =
       [made |-> TRUE, given |-> config,
        config |-> MergedConfig(Default(config, EmptyLoggerConfig)),
        inst |-> Null, first |-> Null, builds |-> 0]]
  /\ loggerCall' = [fn |-> "new Logger", w |-> w, config |-> config]
  /\ UNCHANGED <<_loggerConfig, _loggerInstance, logger, nextLogger,
                 cfgVars, clientVars, sendVars, respVars>>

\* an accessor that constructs an instance on every read
LoggerBuilds_Always(w) == TRUE

\* the accessor constructs the instance when the wrapper holds none
LoggerBuilds(w) == wrappers[w].inst = Null

\* a read of `instance` on wrapper w
Instance(w) ==
  /\ wrappers[w] # NoWrapper
  /\ LoggerBuilds(w) => nextLogger <= MaxLoggers
  /\ LET inst == IF LoggerBuilds(w)
                 THEN CreateLogger(wrappers[w].config, nextLogger)
                 ELSE wrappers[w].inst
     IN /\ wrappers' = [wrappers EXCEPT ![w] =
             [@ EXCEPT !.inst = inst,
                       !.first = IF @ = Null THEN inst ELSE @,
                       !.builds = IF LoggerBuilds(w) THEN @ + 1 ELSE @]]
        /\ nextLogger' = IF LoggerBuilds(w) THEN nextLogger + 1 ELSE nextLogger
        /\ loggerCall' = [fn |-> "instance", w |-> w, value |-> inst,
                          created |-> LoggerBuilds(w)]
  /\ UNCHANGED <<_loggerConfig, _loggerInstance, logger, cfgVars, clientVars, sendVars, respVars>>

NoLoggerCall == [fn |-> "none"]

NoRet == [var |-> "none", fn |-> "none", k |-> "none", created |-> FALSE]

Init ==
  /\ env = [n \in EnvNames |-> Undefined]
  /\ mgrSchema = [m \in Managers |-> NoSchema]
  /\ cache = [m \in Managers |-> Null]
  /\ nextRef = 1
  /\ firstGot = [m \in Managers |-> Undefined]
  /\ last = [m \in Managers |-> NoCall]
  /\ slot = [v \in ClientVars |-> Null]
  /\ dynamoClient = Null
  /\ dynamoDocClient = Null
  /\ nextHandle = 1
  /\ ret = NoRet
  /\ prior = [v \in ClientVars |-> NoPrior]
  /\ firstGet = [v \in ClientVars |-> Undefined]
  /\ dynGiven = Undefined
  /\ inv = [i \in Invocations |-> Idle]
  /\ resp = NoResponse
  /\ _loggerConfig = DefaultLoggerConfig
  /\ _loggerInstance = LoadedLogger
  /\ logger = LoadedLogger
  /\ wrappers = [w \in Wrappers |-> NoWrapper]
  /\ nextLogger = 2
  /\ loggerCall = NoLoggerCall

\* the calls of a program that uses the client singletons
ClientNext ==
  \/ \E config \in ClientConfigs : initializeSNSClient(config)
  \/ getSNSClient
  \/ resetSNSClient
  \/ \E config \in ClientConfigs : initializeSQSClient(config)
  \/ getSQSClient
  \/ resetSQSClient
  \/ \E config \in ClientConfigs : initializeLambdaClient(config)
  \/ getLambdaClient
  \/ resetLambdaClient

ClientSpec == Init /\ [][ClientNext]_vars

\* the calls of a program that uses the DynamoDB clients
DynamoNext ==
  \/ \E config \in ClientConfigs, mo \in MarshallOptions, uo \in UnmarshallOptions :
       initializeDynamoDBClients(config, mo, uo)
  \/ getDynamoDBClient
  \/ getDynamoDBDocumentClient
  \/ resetDynamoDBClients

DynamoSpec == Init /\ [][DynamoNext]_vars

\* the calls of a program that initializes the clients of every kind, again
\* and again, and gets them
InitializeNext ==
  \/ \E config \in ClientConfigs : initializeSNSClient(config)
  \/ getSNSClient
  \/ \E config \in ClientConfigs : initializeSQSClient(config)
  \/ getSQSClient
  \/ \E config \in ClientConfigs : initializeLambdaClient(config)
  \/ getLambdaClient
  \/ \E config \in ClientConfigs : initializeDynamoDBClients(config, Undefined, Undefined)
  \/ getDynamoDBClient
  \/ getDynamoDBDocumentClient

InitializeSpec == Init /\ [][InitializeNext]_vars

\* the calls and environment changes of a program that uses the managers ms
ConfigNextOf(ms) ==
  \/ \E m \in ms, s \in SchemaNames : CreateConfigManager(m, s)
  \/ \E n \in EnvNames : \E v \in EnvValues(n) : SetEnv(n, v)
  \/ \E m \in ms : Get(m)
  \/ \E m \in ms : Refresh(m)

\* a program with one configuration manager
ConfigNext == ConfigNextOf({"m1"})

ConfigSpec == Init /\ [][ConfigNext]_vars

\* a program with two configuration managers, each over one of two schemas of
\* the table name, while the table name changes
TwoManagersNext ==
  \/ \E m \in Managers, s \in {"table", "strict"} : CreateConfigManager(m, s)
  \/ \E v \in EnvValues("TABLE_NAME") : SetEnv("TABLE_NAME", v)
  \/ \E m \in Managers : Get(m)
  \/ \E m \in Managers : Refresh(m)

TwoManagersSpec == Init /\ [][TwoManagersNext]_vars

\* overlapping invocations that publish and send while the SNS and SQS
\* clients are initialized and reset
SendNext ==
  \/ \E var \in {"snsClient", "sqsClient"}, config \in SendConfigs :
       InitializeMeanwhile(var, config)
  \/ \E var \in {"snsClient", "sqsClient"} : ResetMeanwhile(var)
  \/ \E i \in Invocations, arn \in TopicArns, in \in SendInputs :
       publishToTopic(i, arn, in[1], in[2])
  \/ \E i \in Invocations, url \in QueueUrls, in \in SendInputs :
       sendToQueue(i, url, in[1], in[2])
  \/ \E i \in Invocations, answer \in SendAnswers : SendSettles(i, answer)

SendSpec == Init /\ [][SendNext]_vars

\* one invocation at a time that publishes, sends and invokes, while the
\* clients are initialized and reset between its call and the platform's answer
OperationsNext ==
  \/ \E var \in ClientVars, config \in SendConfigs : InitializeMeanwhile(var, config)
  \/ \E var \in ClientVars : ResetMeanwhile(var)
  \/ \E arn \in TopicArns, in \in SendInputs : publishToTopic("i1", arn, in[1], in[2])
  \/ \E url \in QueueUrls, in \in SendInputs : sendToQueue("i1", url, in[1], in[2])
  \/ \E fn \in FunctionNames, payload \in InvokePayloads : invokeLambdaSync("i1", fn, payload)
  \/ \E fn \in FunctionNames, payload \in InvokePayloads : invokeLambdaAsync("i1", fn, payload)
  \/ \E answer \in SendAnswers : SendSettles("i1", answer)
  \/ \E answer \in InvokeAnswers : InvokeSettles("i1", answer)

OperationsSpec == Init /\ [][OperationsNext]_vars

\* what the platform answers an invocation in OverlapNext: a response with a
\* payload, a response with a function error, or a failure of the transport
OverlapInvokeAnswers ==
  {a \in InvokeAnswers :
     a.k = "return" =>
       \/ a.value = [FunctionError |-> Undefined, Payload |-> Bytes("null")]
       \/ a.value = [FunctionError |-> Str("Unhandled"), Payload |-> Undefined]}

\* overlapping invocations that get the clients, publish, send and invoke in a
\* process in which nothing initializes or resets a client
OverlapNext ==
  \/ getSNSClient
  \/ getSQSClient
  \/ getLambdaClient
  \/ \E i \in Invocations, arn \in TopicArns : publishToTopic(i, arn, EmptyObject, Undefined)
  \/ \E i \in Invocations, url \in QueueUrls : sendToQueue(i, url, EmptyObject, Undefined)
  \/ \E i \in Invocations, fn \in FunctionNames : invokeLambdaSync(i, fn, Undefined)
  \/ \E i \in Invocations, fn \in FunctionNames : invokeLambdaAsync(i, fn, Undefined)
  \/ \E i \in Invocations, answer \in SendAnswers : SendSettles(i, answer)
  \/ \E i \in Invocations, answer \in OverlapInvokeAnswers : InvokeSettles(i, answer)

OverlapSpec == Init /\ [][OverlapNext]_vars

\* a handler that builds responses
ResponseNext ==
  \/ \E statusCode \in StatusCodes, body \in Bodies, headers \in HeaderInputs :
       CallCreateResponse(statusCode, body, headers)
  \/ \E body \in Bodies, headers \in HeaderInputs : CallOk(body, headers)
  \/ \E body \in Bodies, headers \in HeaderInputs : CallCreated(body, headers)
  \/ \E headers \in HeaderInputs : CallNoContent(headers)
  \/ \E message \in Messages, headers \in HeaderInputs : CallBadRequest(message, headers)
  \/ \E message \in Messages, headers \in HeaderInputs : CallNotFound(message, headers)
  \/ \E message \in Messages, headers \in HeaderInputs :
       CallInternalServerError(message, headers)

ResponseSpec == Init /\ [][ResponseNext]_vars

\* a program that configures the module-level logger and uses Logger objects
LoggerNext ==
  \/ \E config \in LoggerConfigs : initializeLogger(config)
  \/ \E w \in Wrappers, config \in LoggerConfigs \cup {Undefined} : NewLogger(w, config)
  \/ \E w \in Wrappers : Instance(w)

LoggerSpec == Init /\ [][LoggerNext]_vars

\* the whole program
Next ==
  \/ ConfigNext \/ ClientNext \/ DynamoNext \/ InitializeNext
  \/ SendNext \/ OperationsNext \/ OverlapNext \/ ResponseNext \/ LoggerNext

Spec == Init /\ [][Next]_vars

(***************************************************************************)
(* Properties of the configuration manager.                                *)
(***************************************************************************)
IsObject(v) == v.t = "object"

\* manager m has just been called: the step wrote a new call record
CalledStep(m) == last'[m] # last[m]

\* C1: after a first successful get(), every later get() made without an
\* intervening refresh() returns the identical snapshot object (same heap
\* reference, same field values), whatever the environment has become.
C1_GetIsSticky ==
  \A m \in Managers :
    (last[m].op = "get" /\ last[m].k = "return" /\ IsObject(firstGot[m]))
      => last[m].value = firstGot[m]

\* a later get() answered from the cache although the environment no longer
\* validates to the snapshot first returned
C1_Witness ==
  \E m \in Managers :
    /\ last[m].op = "get" /\ last[m].k = "return" /\ ~last[m].validated
    /\ last[m].prev = <<"get", "return">>
    /\ IsObject(firstGot[m]) /\ last[m].value = firstGot[m]
    /\ SchemaParse(mgrSchema[m], env, firstGot[m].ref) # [k |-> "return", value |-> firstGot[m]]

\* what a refresh() that returns does in its step
C2_RefreshStep ==
  \A m \in Managers :
    (CalledStep(m) /\ last'[m].op = "refresh" /\ last'[m].k = "return") =>
      LET now == SchemaParse(mgrSchema[m], env, nextRef) IN
      /\ last'[m].validated
      /\ now.k = "return" /\ last'[m].value = now.value
      /\ cache'[m] = last'[m].value
      /\ IsObject(last'[m].value) =>
           /\ last'[m].value.ref >= nextRef
           /\ last'[m].value # cache[m]
           /\ last'[m].value # last'[m].held

\* a get() that follows a refresh() returns the object the refresh() returned
C2_NextGet ==
  \A m \in Managers :
    (last[m].op = "get" /\ last[m].prev = <<"refresh", "return">> /\ IsObject(last[m].held))
      => (last[m].k = "return" /\ last[m].value = last[m].held)

\* C2: refresh() always validates the environment as it is at the call,
\* ignoring the cache: it returns a new snapshot of that environment (an object
\* never returned before), stores it as the cache, and the next get() returns
\* that very object.
C2_RefreshRevalidates == [][C2_RefreshStep]_vars /\ []C2_NextGet

\* refresh() after a get() and a change of the environment returned a new
\* snapshot with other field values, now the cache
C2_Witness ==
  \E m \in Managers :
    /\ last[m].op = "refresh" /\ last[m].k = "return" /\ last[m].prev = <<"get", "return">>
    /\ IsObject(last[m].held) /\ IsObject(last[m].value)
    /\ last[m].value.props # last[m].held.props
    /\ cache[m] = last[m].value

\* what a refresh() that throws does in its step
C3_FailedRefreshStep ==
  \A m \in Managers :
    (CalledStep(m) /\ last'[m].op = "refresh" /\ last'[m].k = "throw")
      => cache'[m] = cache[m]

\* a get() that follows a failed refresh() returns the object cached before it
C3_GetAfterFailedRefresh ==
  \A m \in Managers :
    (last[m].op = "get" /\ last[m].prev = <<"refresh", "throw">> /\ IsObject(last[m].held))
      => (last[m].k = "return" /\ last[m].value = last[m].held /\ ~last[m].validated)

\* C3: a refresh() that throws leaves the cache as it was: a snapshot object
\* cached before is what a following get() returns, without throwing, and an
\* empty cache stays empty.
C3_FailedRefreshKeepsCache == [][C3_FailedRefreshStep]_vars /\ []C3_GetAfterFailedRefresh

\* a get() that followed a failed refresh() returned the snapshot cached before
C3_Witness ==
  \E m \in Managers :
    /\ last[m].op = "get" /\ last[m].prev = <<"refresh", "throw">>
    /\ last[m].k = "return" /\ IsObject(last[m].value)
    /\ last[m].value = last[m].held

\* the step of a get() that throws on an empty cache, and of the call after it
C4_FailedGetStep ==
  \A m \in Managers :
    /\ (CalledStep(m) /\ last'[m].op = "get" /\ last'[m].k = "throw" /\ cache[m] = Null)
         => cache'[m] = Null
    /\ (CalledStep(m) /\ last'[m].prev = <<"get", "throw">> /\ cache[m] = Null) =>
         LET now == ValidateConfig(mgrSchema[m], env, nextRef) IN
         /\ last'[m].validated
         /\ last'[m].k = now.k
         /\ now.k = "return" => (last'[m].value = now.value /\ cache'[m] = now.value)
         /\ now.k = "throw" => (last'[m].error = now.error /\ cache'[m] = Null)

\* C4: a get() that throws on an empty cache leaves the cache empty, and the
\* manager's next get() or refresh() validates again, against the environment
\* as it then is: it succeeds exactly when that environment satisfies the schema.
C4_FailedGetRetries == [][C4_FailedGetStep]_vars

\* a get() that followed a failed get() succeeded and populated the cache
C4_Witness ==
  \E m \in Managers :
    /\ last[m].op = "get" /\ last[m].prev = <<"get", "throw">>
    /\ last[m].k = "return" /\ last[m].validated
    /\ cache[m] = last[m].value /\ IsObject(cache[m])

\* the entries '<field>: <reason>' of the fields of a schema that fail, in order
RECURSIVE C5_Entries(_, _)
C5_Entries(fields, e) ==
  IF Len(fields) = 0 THEN <<>>
  ELSE LET r == ParseField(Head(fields), e)
           rest == C5_Entries(Tail(fields), e)
       IN IF r.k = "issue"
          THEN <<Head(fields).name \o ": " \o r.issue.message>> \o rest
          ELSE rest

RECURSIVE C5_CommaList(_)
C5_CommaList(entries) ==
  IF Len(entries) = 1 THEN entries[1]
  ELSE entries[1] \o ", " \o C5_CommaList(Tail(entries))

\* the step of a call whose validation the schema rejects
C5_MessageStep ==
  \A m \in Managers :
    (CalledStep(m) /\ last'[m].validated
       /\ SchemaParse(mgrSchema[m], env, nextRef).k = "throw"
       /\ SchemaParse(mgrSchema[m], env, nextRef).error.name = "ZodError") =>
      /\ last'[m].k = "throw"
      /\ last'[m].error.name = "Error"
      /\ last'[m].error.message =
           "Configuration validation failed: "
             \o C5_CommaList(C5_Entries(Schemas[mgrSchema[m]].fields, env))
      /\ (mgrSchema[m] = "strict" /\ env = [n \in EnvNames |-> Undefined]) =>
           last'[m].error.message =
             "Configuration validation failed: TABLE_NAME: Required, ENABLED: Required"
      /\ (mgrSchema[m] = "table" /\ env["TABLE_NAME"] = Str("") /\ env["ENABLED"] = Str("maybe")) =>
           last'[m].error.message =
             "Configuration validation failed: TABLE_NAME: String must contain at least 1 character(s), ENABLED: Invalid enum value"
      /\ IssueText(Issue(<<"DATABASE", "HOST">>, "Required")) = "DATABASE.HOST: Required"

\* C5: when the schema rejects the environment, get() and refresh() throw an
\* Error whose message is 'Configuration validation failed: ' followed by one
\* '<path joined by dots>: <reason>' entry for every failing field, in issue
\* order, joined by ', '.
C5_ValidationMessage == [][C5_MessageStep]_vars

\* a call threw the message that names both failing fields
C5_Witness ==
  \E m \in Managers :
    /\ last[m].k = "throw"
    /\ last[m].error.name = "Error"
    /\ last[m].error.message =
         "Configuration validation failed: TABLE_NAME: Required, ENABLED: Invalid enum value"

(***************************************************************************)
(* Properties of the client singletons.                                    *)
(***************************************************************************)
\* C6: while no initializeDynamoDBClients has been called since the start or
\* since the last resetDynamoDBClients, getDynamoDBClient and
\* getDynamoDBDocumentClient throw an error that names
\* initializeDynamoDBClients(); after one, they return exactly the base and
\* the document handle that call returned.
C6_DynamoRequiresInitialize ==
  /\ ret.fn = "getDynamoDBClient" =>
       IF dynGiven = Undefined
       THEN /\ ret.k = "throw"
            /\ ret.error.message =
                 "DynamoDB client not initialized. Call initializeDynamoDBClients() first."
       ELSE ret.k = "return" /\ ret.value = dynGiven.client
  /\ ret.fn = "getDynamoDBDocumentClient" =>
       IF dynGiven = Undefined
       THEN /\ ret.k = "throw"
            /\ ret.error.message =
                 "DynamoDB Document client not initialized. Call initializeDynamoDBClients() first."
       ELSE ret.k = "return" /\ ret.value = dynGiven.documentClient

\* the document getter returned the handle of the latest initialize, the
\* second one the process constructed
C6_Witness ==
  /\ ret.fn = "getDynamoDBDocumentClient" /\ ret.k = "return"
  /\ dynGiven # Undefined /\ ret.value = dynGiven.documentClient
  /\ ret.value.client = dynamoClient

\* C7: for SNS, SQS and Lambda, the getter calls made with no initialize or
\* reset between them all return the same handle, whether the first of them
\* created it or found it initialized.
C7_GetterIsStable ==
  (ret.var \in ClientVars /\ ret.fn = "get" /\ firstGet[ret.var] # Undefined)
    => (ret.k = "return" /\ ret.value = firstGet[ret.var])

\* a getter call that followed a getter call returned the handle the first
\* one created with the default configuration
C7_Witness ==
  /\ ret.var \in ClientVars /\ ret.fn = "get" /\ ret.after = "get"
  /\ ~ret.created /\ ret.value = firstGet[ret.var]
  /\ ret.value.config = EmptyObject

\* the references of the client objects constructed so far
ConstructedRefs == 1..(nextHandle - 1)

\* what an initialize does in its step
C8_InitializeStep ==
  (ret' # ret /\ ret'.fn = "initialize") =>
    IF ret'.var \in ClientVars
    THEN /\ ret'.k = "return" /\ ret'.created
         /\ ret'.value.ref \notin ConstructedRefs
         /\ ret'.value # slot[ret'.var]
         /\ slot'[ret'.var] = ret'.value
    ELSE /\ ret'.k = "return"
         /\ ret'.value.client.ref \notin ConstructedRefs
         /\ ret'.value.documentClient.ref \notin ConstructedRefs
         /\ ret'.value.client # dynamoClient
         /\ ret'.value.documentClient # dynamoDocClient
         /\ dynamoClient' = ret'.value.client
         /\ dynamoDocClient' = ret'.value.documentClient

\* every handle in a slot is one constructed so far
C8_HandlesConstructed ==
  /\ \A v \in ClientVars : Truthy(slot[v]) => slot[v].ref \in ConstructedRefs
  /\ Truthy(dynamoClient) => dynamoClient.ref \in ConstructedRefs
  /\ Truthy(dynamoDocClient) => dynamoDocClient.ref \in ConstructedRefs

\* the getter called after an initialize returns the handle it returned
C8_GetterAfterInitialize ==
  /\ (ret.var \in ClientVars /\ ret.fn = "get" /\ ret.after = "initialize")
       => (ret.k = "return" /\ ret.value = ret.held /\ ~ret.created)
  /\ (ret.fn = "getDynamoDBClient" /\ dynGiven # Undefined)
       => (ret.k = "return" /\ ret.value = dynGiven.client)
  /\ (ret.fn = "getDynamoDBDocumentClient" /\ dynGiven # Undefined)
       => (ret.k = "return" /\ ret.value = dynGiven.documentClient)

\* C8: initialize always constructs a new handle and replaces what the slot
\* held: the handle it returns is none of the handles constructed before, the
\* slot holds it, and the getter called next returns exactly it.
C8_InitializeReplaces ==
  [][C8_InitializeStep]_vars /\ [](C8_HandlesConstructed /\ C8_GetterAfterInitialize)

\* an initialize that followed an initialize returned another handle, now in the slot
C8_Witness ==
  /\ ret.var \in ClientVars /\ ret.fn = "initialize" /\ ret.after = "initialize"
  /\ Truthy(ret.held) /\ ret.value # ret.held
  /\ slot[ret.var] = ret.value

\* what a reset, and the getter called after it, do in their steps
C9_ResetStep ==
  /\ (ret' # ret /\ ret'.var \in ClientVars /\ ret'.fn = "reset")
       => slot'[ret'.var] = Null
  /\ (ret' # ret /\ ret'.var \in ClientVars /\ ret'.fn = "get" /\ ret'.after = "reset")
       => ret'.value.ref \notin ConstructedRefs

\* the calls that follow a reset, as their caller sees them
C9_AfterReset ==
  /\ (ret.var \in ClientVars /\ ret.fn = "get" /\ ret.after = "reset") =>
       /\ ret.k = "return" /\ ret.created
       /\ ret.value # ret.held
       /\ ret.value.config = EmptyObject
       /\ slot[ret.var] = ret.value
  /\ (ret.var \in ClientVars /\ ret.fn = "initialize" /\ ret.after = "reset") =>
       (ret.created /\ slot[ret.var] = ret.value)
  /\ (ret.var \in ClientVars /\ ret.fn = "get" /\ ret.after = "initialize") =>
       (ret.value = ret.held /\ slot[ret.var] = ret.held)

\* C9: for SNS, SQS and Lambda, a reset empties the slot and the getter called
\* after it returns a newly created default handle that is not the handle held
\* before the reset; an initialize called after it makes the getter return the
\* handle that initialize returned.
C9_ResetThenRecreate == [][C9_ResetStep]_vars /\ []C9_AfterReset

\* a getter call that followed the reset of a held handle created another one
C9_Witness ==
  /\ ret.var \in ClientVars /\ ret.fn = "get" /\ ret.after = "reset"
  /\ Truthy(ret.held) /\ ret.created /\ ret.value # ret.held

(***************************************************************************)
(* Properties of the send operations.                                      *)
(***************************************************************************)
\* C10: publishToTopic and sendToQueue resolve to the MessageId of the
\* platform's response as it is when the response carries one, and to the
\* empty string when it carries none; never to undefined or null.
C10_ResolvesToMessageId ==
  \A i \in Invocations :
    (inv[i].pc = "settled" /\ inv[i].op \in {"publishToTopic", "sendToQueue"}
       /\ inv[i].answer.k = "return") =>
      /\ inv[i].k = "resolve"
      /\ inv[i].value.t = "string"
      /\ IF inv[i].answer.value.MessageId.t = "string"
         THEN inv[i].value = inv[i].answer.value.MessageId
         ELSE inv[i].value = Str("")

\* one operation resolved to '' for a response without MessageId while the
\* other resolved to the MessageId it was given
C10_Witness ==
  \E i, j \in Invocations :
    /\ inv[i].pc = "settled" /\ inv[i].op = "publishToTopic" /\ inv[i].k = "resolve"
    /\ inv[i].answer.value.MessageId = Undefined /\ inv[i].value = Str("")
    /\ inv[j].pc = "settled" /\ inv[j].op = "sendToQueue" /\ inv[j].k = "resolve"
    /\ inv[j].value = Str("msg-0001")

(***************************************************************************)
(* Properties of the publish, send and invoke operations.                  *)
(***************************************************************************)
InvokeOps == {"invokeLambdaSync", "invokeLambdaAsync"}

\* C11: when the platform's response carries the function error marker X,
\* invokeLambdaSync and invokeLambdaAsync reject with an Error whose message
\* is 'Lambda function error: X', whatever payload comes with it, and the
\* invocation has sent exactly one request.
C11_FunctionErrorRejects ==
  \A i \in Invocations :
    (inv[i].pc = "settled" /\ inv[i].op \in InvokeOps /\ inv[i].answer.k = "return"
       /\ inv[i].answer.value.FunctionError # Undefined) =>
      /\ inv[i].k = "reject"
      /\ inv[i].error.name = "Error"
      /\ inv[i].error.message =
           "Lambda function error: " \o inv[i].answer.value.FunctionError.s
      /\ inv[i].answer.value.FunctionError = Str("Unhandled") =>
           inv[i].error.message = "Lambda function error: Unhandled"
      /\ Len(inv[i].sent) = 1

\* invokeLambdaAsync rejected with the function error of a response that also
\* carried a payload
C11_Witness ==
  \E i \in Invocations :
    /\ inv[i].pc = "settled" /\ inv[i].op = "invokeLambdaAsync"
    /\ inv[i].answer.k = "return"
    /\ inv[i].answer.value.FunctionError = Str("Unhandled")
    /\ inv[i].answer.value.Payload # Undefined
    /\ inv[i].k = "reject"
    /\ inv[i].error.message = "Lambda function error: Unhandled"

\* the text of a response payload, "" when the response carries no bytes
C12_PayloadText(response) ==
  IF response.Payload = Undefined THEN "" ELSE response.Payload.text

\* C12: invokeLambdaSync with a response that has no function error resolves
\* to the value the payload's JSON text denotes when a payload was returned,
\* and to null when the response has no payload (no Payload, or one of no
\* bytes).
C12_SyncResolvesPayload ==
  \A i \in Invocations :
    (inv[i].pc = "settled" /\ inv[i].op = "invokeLambdaSync" /\ inv[i].answer.k = "return"
       /\ inv[i].answer.value.FunctionError = Undefined) =>
      LET text == C12_PayloadText(inv[i].answer.value) IN
      /\ text = "" => (inv[i].k = "resolve" /\ inv[i].value = Null)
      /\ \A v \in JSONValues :
           text = JSONText(v) => (inv[i].k = "resolve" /\ inv[i].value = v)

\* C13: when client.send fails, publishToTopic, sendToQueue, invokeLambdaSync
\* and invokeLambdaAsync reject with that very error, and the operation has
\* sent exactly one request: none is sent again.
C13_TransportFailurePropagates ==
  \A i \in Invocations :
    /\ inv[i].pc # "idle" => Len(inv[i].sent) = 1
    /\ (inv[i].pc = "settled" /\ inv[i].answer.k = "throw") =>
         /\ inv[i].k = "reject"
         /\ inv[i].error = inv[i].answer.error
         /\ inv[i].error \in TransportErrors

\* an invokeLambdaSync rejected with the error of the transport
C13_Witness ==
  \E i \in Invocations :
    /\ inv[i].pc = "settled" /\ inv[i].op = "invokeLambdaSync"
    /\ inv[i].answer.k = "throw"
    /\ inv[i].k = "reject"
    /\ inv[i].error = [name |-> "ServiceUnavailable", message |-> "Service unavailable"]
    /\ Len(inv[i].sent) = 1

\* the JSON texts of the payloads the callers pass
C14_Serialized(payload) ==
  CASE payload = Undefined -> Undefined
    [] payload = Obj(0, <<>>) -> Str("{}")
    [] payload = Obj(0, <<Prop("orderId", Str("12345")), Prop("note", Undefined)>>) ->
         Str("{\"orderId\":\"12345\"}")
    [] payload = Obj(0, <<Prop("key", Str("value")), Prop("trace", Undefined)>>) ->
         Str("{\"key\":\"value\"}")

\* the client variable an operation takes its handle from
C14_VarOf(op) ==
  CASE op = "publishToTopic" -> "snsClient"
    [] op = "sendToQueue" -> "sqsClient"
    [] OTHER -> "lambdaClient"

\* the requests an operation may issue for the arguments the callers pass
C14_Requests(op) ==
  CASE op = "publishToTopic" ->
         {[class |-> "PublishCommand",
           input |-> [TopicArn |-> Str(arn), Message |-> C14_Serialized(in[1]),
                      MessageAttributes |-> in[2]]] : arn \in TopicArns, in \in SendInputs}
    [] op = "sendToQueue" ->
         {[class |-> "SendMessageCommand",
           input |-> [QueueUrl |-> Str(url), MessageBody |-> C14_Serialized(in[1]),
                      MessageAttributes |-> in[2]]] : url \in QueueUrls, in \in SendInputs}
    [] op = "invokeLambdaSync" ->
         {[class |-> "InvokeCommand",
           input |-> [FunctionName |-> Str(fn), InvocationType |-> Str("RequestResponse"),
                      Payload |-> C14_Serialized(p)]] : fn \in FunctionNames, p \in InvokePayloads}
    [] op = "invokeLambdaAsync" ->
         {[class |-> "InvokeCommand",
           input |-> [FunctionName |-> Str(fn), InvocationType |-> Str("Event"),
                      Payload |-> C14_Serialized(p)]] : fn \in FunctionNames, p \in InvokePayloads}

\* the step of a call of an operation, and the step that settles it
C14_CallStep ==
  \A i \in Invocations :
    /\ (inv'[i] # inv[i] /\ inv'[i].pc = "awaiting") =>
         LET var == C14_VarOf(inv'[i].op) IN
         /\ Len(inv'[i].sent) = 1
         /\ inv'[i].sent[1].client = slot'[var]
         /\ inv'[i].client = slot'[var]
         /\ Truthy(slot[var]) => inv'[i].sent[1].client = slot[var]
         /\ inv'[i].sent[1].command \in C14_Requests(inv'[i].op)
    /\ (inv'[i] # inv[i] /\ inv'[i].pc = "settled") => inv'[i].sent = inv[i].sent

\* C14: each call of publishToTopic, sendToQueue, invokeLambdaSync or
\* invokeLambdaAsync issues exactly one request, on the handle the singleton
\* holds at the call (the one already there, or the default one the call
\* creates): its body is the JSON text of the caller's payload, its
\* destination and message attributes are the caller's, and its invocation
\* type is 'RequestResponse' for invokeLambdaSync and 'Event' for
\* invokeLambdaAsync.
C14_OneRequestPerCall == [][C14_CallStep]_vars

\* invokeLambdaAsync has issued its 'Event' request on a handle that an
\* initializeLambdaClient had put in the slot
C14_Witness ==
  \E i \in Invocations :
    /\ inv[i].pc = "awaiting" /\ inv[i].op = "invokeLambdaAsync"
    /\ inv[i].sent =
         <<[client |-> slot["lambdaClient"],
            command |-> [class |-> "InvokeCommand",
                         input |-> [FunctionName |-> Str("my-function-name"),
                                    InvocationType |-> Str("Event"),
                                    Payload |-> Str("{\"key\":\"value\"}")]]]>>
    /\ inv[i].client.config # EmptyObject

(***************************************************************************)
(* Properties of the response formatter.                                   *)
(***************************************************************************)
\* the JSON texts of the bodies the callers pass
C15_Json(body) ==
  CASE body = Undefined -> Undefined
    [] body = Null -> Str("null")
    [] body = Str("x") -> Str("\"x\"")
    [] body = Obj(0, <<>>) -> Str("{}")
    [] body = Obj(0, <<Prop("a", Num(1)), Prop("gone", Undefined)>>) -> Str("{\"a\":1}")

\* the properties of the headers a caller gives, none when it gives no headers
C15_Given(headers) == IF headers = Undefined THEN <<>> ELSE headers.props

\* C15: createResponse(statusCode, body, headers?) returns an envelope of
\* exactly statusCode, headers and body: the status code is the one given,
\* whatever number it is, the headers have the properties of the headers given
\* (none when they are omitted), and the body is the JSON text of body.
C15_CreateResponseEnvelope ==
  resp.fn = "createResponse" =>
    /\ DOMAIN resp.result = {"statusCode", "headers", "body"}
    /\ resp.result.statusCode = resp.statusCode
    /\ resp.result.headers.t = "object"
    /\ resp.result.headers.props = C15_Given(resp.headers)
    /\ resp.result.body = C15_Json(resp.body)

\* createResponse was given a status code that is no HTTP status and headers
\* of three types, and returned them as they are
C15_Witness ==
  /\ resp.fn = "createResponse"
  /\ resp.statusCode = 999 /\ resp.result.statusCode = 999
  /\ resp.result.headers.props =
       <<Prop("Content-Type", Str("application/json")), Prop("X-Count", Num(3)),
         Prop("X-Flag", Bool(TRUE))>>
  /\ resp.result.body = Str("{\"a\":1}")

\* the status code of each shorthand
C16_Status(fn) ==
  CASE fn = "ok" -> 200
    [] fn = "created" -> 201
    [] fn = "noContent" -> 204
    [] fn = "badRequest" -> 400
    [] fn = "notFound" -> 404
    [] fn = "internalServerError" -> 500

\* the body of badRequest, notFound and internalServerError for each message
C16_MessageBody(fn, message) ==
  CASE message = Str("") -> Str("{\"message\":\"\"}")
    [] message = Str("x") -> Str("{\"message\":\"x\"}")
    [] message = Undefined /\ fn = "badRequest" -> Str("{\"message\":\"Bad Request\"}")
    [] message = Undefined /\ fn = "notFound" -> Str("{\"message\":\"Not Found\"}")
    [] message = Undefined /\ fn = "internalServerError" ->
         Str("{\"message\":\"Internal Server Error\"}")

\* C16: the shorthands answer fixed status codes: ok 200, created 201,
\* noContent 204 with body '{}', badRequest 400, notFound 404,
\* internalServerError 500.  badRequest, notFound and internalServerError
\* serialize {message}: the caller's message when one is given, the empty
\* string included, and 'Bad Request', 'Not Found' or 'Internal Server Error'
\* when it is omitted or undefined, with or without headers.
C16_Shorthands ==
  resp.fn \in {"ok", "created", "noContent", "badRequest", "notFound", "internalServerError"} =>
    /\ resp.result.statusCode = C16_Status(resp.fn)
    /\ resp.result.headers.props = C15_Given(resp.headers)
    /\ resp.fn \in {"ok", "created"} => resp.result.body = C15_Json(resp.body)
    /\ resp.fn = "noContent" => resp.result.body = Str("{}")
    /\ resp.fn \in {"badRequest", "notFound", "internalServerError"} =>
         resp.result.body = C16_MessageBody(resp.fn, resp.message)

\* badRequest was given the empty string as its message, and headers
C16_Witness ==
  /\ resp.fn = "badRequest"
  /\ resp.message = Str("") /\ resp.headers = Obj(0, <<Prop("H", Str("v"))>>)
  /\ resp.result =
       [statusCode |-> 400, headers |-> Obj(0, <<Prop("H", Str("v"))>>),
        body |-> Str("{\"message\":\"\"}")]

C18_Option(given, default) == IF given = Undefined THEN default ELSE given

C18_Resolved(config) ==
  IF config = Undefined THEN [enabled |-> Bool(TRUE), level |-> Str("info"), format |-> Str("json")]
  ELSE [enabled |-> C18_Option(config.enabled, Bool(TRUE)),
        level |-> C18_Option(config.level, Str("info")),
        format |-> C18_Option(config.format, Str("json"))]

\* instance was built from configuration config
C18_BuiltFrom(instance, config) ==
  /\ instance.options = [enabled |-> config.enabled, level |-> config.level]
  /\ instance.destination.formatter = "StructuredLogFormatter" <=> config.format = Str("json")
  /\ instance.destination.formatter \in {"StructuredLogFormatter", "CloudwatchLogFormatter"}

C19_CallStep ==
  \A m \in Managers :
    CalledStep(m) =>
      /\ \A other \in Managers \ {m} :
           /\ cache'[other] = cache[other]
           /\ last'[other] = last[other]
      /\ (last'[m].op = "get" /\ ~last'[m].validated) =>
           (last'[m].k = "return" /\ last'[m].value = cache[m])
      /\ (last[m].op = "none" /\ last'[m].op = "get") =>
           LET now == ValidateConfig(mgrSchema[m], env, nextRef) IN
           /\ last'[m].validated
           /\ last'[m].k = now.k
           /\ now.k = "return" => last'[m].value = now.value
           /\ now.k = "throw" => last'[m].error = now.error

\* the snapshot objects of two managers are never one object
C19_OwnSnapshots ==
  \A m, other \in Managers :
    (m # other /\ IsObject(cache[m]) /\ IsObject(cache[other]))
      => cache[m].ref # cache[other].ref

\* C19: each manager owns its cache: a get(), a refresh() or a validation
\* failure of one manager changes neither the cache of another manager nor
\* what it returns, also when both wrap the same schema, and a manager's
\* first get() validates the environment as it is at that call.
C19_ManagersAreIndependent == [][C19_CallStep]_vars /\ []C19_OwnSnapshots

\* two managers of the same schema: the second one's call failed on the
\* environment as changed, while the first one holds its snapshot
C19_Witness ==
  /\ mgrSchema["m1"] = "table" /\ mgrSchema["m2"] = "table"
  /\ IsObject(cache["m1"])
  /\ last["m1"].op = "get" /\ last["m1"].k = "return" /\ last["m1"].value = cache["m1"]
  /\ last["m2"].op = "get" /\ last["m2"].k = "throw"
  /\ cache["m2"] = Null
  /\ env["TABLE_NAME"] = Str("")

\* the step of a call in which schema.parse throws an error that is no ZodError
C20_OtherErrorStep ==
  \A m \in Managers :
    (CalledStep(m) /\ last'[m].validated
       /\ SchemaParse(mgrSchema[m], env, nextRef).k = "throw"
       /\ SchemaParse(mgrSchema[m], env, nextRef).error.name # "ZodError") =>
      /\ last'[m].k = "throw"
      /\ last'[m].error = SchemaParse(mgrSchema[m], env, nextRef).error
      /\ last'[m].error = [name |-> "SyntaxError", message |-> "Unexpected token"]
      /\ cache'[m] = cache[m]

\* C20: only the schema's own validation failure is caught and reformatted by
\* get() and refresh(): any other error raised during validation reaches the
\* caller as the same error, without the 'Configuration validation failed'
\* prefix, and the cache stays as it was.
C20_OtherErrorsPropagate == [][C20_OtherErrorStep]_vars

\* a refresh() threw the error of the schema's transform and the manager still
\* holds the snapshot cached before
C20_Witness ==
  \E m \in Managers :
    /\ last[m].op = "refresh" /\ last[m].k = "throw"
    /\ last[m].error.name = "SyntaxError"
    /\ IsObject(cache[m]) /\ cache[m] = last[m].held

\* every value process.env can take
C21_Environments == {e \in [EnvNames -> UNION {EnvValues(n) : n \in EnvNames}] :
                       \A n \in EnvNames : e[n] \in EnvValues(n)}

\* v is what manager m's schema made of some environment
C21_ValidatedSnapshot(m, v) ==
  \E e \in C21_Environments, ref \in 1..(MaxRefs + 1) :
    SchemaParse(mgrSchema[m], e, ref) = [k |-> "return", value |-> v]

\* a step never empties a cache
C21_NeverEmptiedStep ==
  \A m \in Managers : cache[m] # Null => cache'[m] # Null

\* the cache of a manager is empty until a call of it, and what it holds is a
\* snapshot its schema validated
C21_HoldsSnapshot ==
  \A m \in Managers :
    /\ last[m].op = "none" => cache[m] = Null
    /\ cache[m] # Null => C21_ValidatedSnapshot(m, cache[m])

\* C21: a manager's cache starts empty and, once a successful get() or
\* refresh() has populated it, no get(), refresh() (successful or failing) or
\* change of the environment empties it again: it holds a validated snapshot
\* in every later state.
C21_CacheNeverEmptied == [][C21_NeverEmptiedStep]_vars /\ []C21_HoldsSnapshot

\* two refresh() calls in a row failed and a get() failed to validate nothing:
\* the manager still holds a snapshot the environment no longer validates to
C21_Witness ==
  \E m \in Managers :
    /\ last[m].op = "refresh" /\ last[m].k = "throw"
    /\ last[m].prev = <<"refresh", "throw">>
    /\ IsObject(cache[m])
    /\ SchemaParse(mgrSchema[m], env, cache[m].ref).k = "throw"

\* C22: the schema is validated exactly once per populated cache, for every
\* schema and every result it validates to: once a get() has succeeded, no
\* later get() runs the schema's validation again until refresh() is called.
C22_ValidatedOnce ==
  [][\A m \in Managers :
       (CalledStep(m) /\ last'[m].op = "get" /\ firstGot[m] # Undefined)
         => ~last'[m].validated]_vars

\* C23: a validation failure resets the cache: after a get() or refresh() that
\* throws a validation error the manager holds no cached snapshot.
C23_FailureResetsCache ==
  \A m \in Managers :
    (last[m].k = "throw" /\ last[m].error.name = "Error") => cache[m] = Null

\* the step of a call that throws a validation error, and of the get() after it
C23_FailureStep ==
  \A m \in Managers :
    /\ (CalledStep(m) /\ last'[m].k = "throw" /\ last'[m].error.name = "Error") =>
         cache'[m] = cache[m]
    /\ (CalledStep(m) /\ last'[m].op = "get" /\ last[m].k = "throw"
          /\ last[m].error.name = "Error") =>
         /\ last'[m].validated <=> ~Truthy(cache[m])
         /\ ~last'[m].validated => (last'[m].k = "return" /\ last'[m].value = cache[m])

\* C23 as amended: a validation failure leaves the cache as it was.  After a
\* get() that throws a validation error the manager holds no snapshot and the
\* next get() validates the environment again; after a refresh() that throws
\* one the manager holds what it held before, and the next get() returns a
\* snapshot held before without validating.
C23_FailureLeavesCache == [][C23_FailureStep]_vars

\* a refresh() threw a validation error and the get() after it returned the
\* snapshot held before, although the environment fails validation
C23_Witness ==
  \E m \in Managers :
    /\ last[m].op = "get" /\ last[m].k = "return" /\ ~last[m].validated
    /\ last[m].prev = <<"refresh", "throw">>
    /\ IsObject(last[m].value)
    /\ ValidateConfig(mgrSchema[m], env, nextRef).k = "throw"
    /\ ValidateConfig(mgrSchema[m], env, nextRef).error.name = "Error"

(***************************************************************************)
(* Properties of the client slots under overlapping invocations.           *)
(***************************************************************************)
\* C27: the two DynamoDB slots are either both absent or both present, and
\* when they are present the document handle is the one derived from the
\* base handle that is in the base slot now.
C27_DynamoSlotsPaired ==
  /\ Truthy(dynamoClient) <=> Truthy(dynamoDocClient)
  /\ Truthy(dynamoDocClient) =>
       /\ dynamoDocClient.class = "DynamoDBDocumentClient"
       /\ dynamoDocClient.client = dynamoClient
       /\ dynamoDocClient.ref # dynamoClient.ref

\* a later initialize replaced both handles: the document handle in its slot
\* wraps the second base handle, not the first
C27_Witness ==
  /\ ret.var = "dynamo" /\ ret.fn = "initialize"
  /\ dynamoClient.ref > 2
  /\ dynamoDocClient.client = dynamoClient
  /\ dynamoDocClient.client.ref = dynamoClient.ref

\* what the call executed last on a client variable leaves, whichever
\* invocation issued it and whatever ran before
C24_WriterStep ==
  (ret' # ret /\ ret'.var \in ClientVars) =>
    /\ \A v \in ClientVars \ {ret'.var} : slot'[v] = slot[v]
    /\ ret'.fn = "initialize" =>
         (ret'.value.ref \notin ConstructedRefs /\ slot'[ret'.var] = ret'.value)
    /\ ret'.fn = "reset" => slot'[ret'.var] = Null
    /\ (ret'.fn = "get" /\ prior[ret'.var].fn = "initialize") =>
         (ret'.value = prior[ret'.var].value /\ slot'[ret'.var] = slot[ret'.var])
    /\ (ret'.fn = "get" /\ prior[ret'.var].fn = "reset") =>
         (ret'.value.ref \notin ConstructedRefs /\ ret'.value.config = EmptyObject)

\* the slot holds the effect of the call executed last on it
C24_SlotOfLastCall ==
  \A v \in ClientVars :
    /\ prior[v].fn = "initialize" => slot[v] = prior[v].value
    /\ prior[v].fn = "reset" => slot[v] = Null
    /\ prior[v].fn = "get" => slot[v] = prior[v].value
    /\ prior[v].fn = "none" => slot[v] = Null

\* C24: interleaved initialize and reset calls of one client kind are
\* last-writer-wins: the slot holds the handle the last initialize returned,
\* or nothing if a reset ran last, and the getter reaches no handle of an
\* earlier call.
C24_LastWriterWins == [][C24_WriterStep]_vars /\ []C24_SlotOfLastCall

\* an initialize, a reset that dropped a handle, and another initialize have
\* run on one variable; the getter now returns the third handle constructed
C24_Witness ==
  /\ ret.var \in ClientVars /\ ret.fn = "initialize" /\ ret.after = "reset"
  /\ Truthy(ret.held) /\ ret.value.ref = 3 /\ ret.value # ret.held
  /\ slot[ret.var] = ret.value /\ prior[ret.var].value = ret.value

\* what the steps taken while a request is in flight, and the step that
\* resumes its operation, do to the operation and to the slots
C26_InFlightStep ==
  \A i \in Invocations :
    inv[i].pc = "awaiting" =>
      /\ inv'[i].pc \in {"awaiting", "settled"}
      /\ inv'[i].pc = "awaiting" => inv'[i] = inv[i]
      /\ inv'[i].pc = "settled" =>
           /\ inv'[i].op = inv[i].op
           /\ inv'[i].client = inv[i].client
           /\ inv'[i].sent = inv[i].sent
           /\ slot' = slot

\* a completed operation issued its request on the handle it obtained, and
\* got the result of that request
C26_CompletedOnOwnHandle ==
  \A i \in Invocations :
    inv[i].pc = "settled" =>
      /\ \A n \in 1..Len(inv[i].sent) : inv[i].sent[n].client = inv[i].client
      /\ inv[i].answer.k = "throw" =>
           (inv[i].k = "reject" /\ inv[i].error = inv[i].answer.error)
      /\ (inv[i].answer.k = "return" /\ inv[i].op \in {"publishToTopic", "sendToQueue"}) =>
           (inv[i].k = "resolve"
              /\ inv[i].value \in {inv[i].answer.value.MessageId, Str("")})

\* C26: a publish, send or invoke operation uses the handle it obtained when
\* it was called for its whole request: an initialize or reset of its kind by
\* another invocation while the request is in flight leaves the operation, its
\* handle and its result alone, and the operation's completion leaves the slot
\* as the other invocation wrote it.
C26_InFlightKeepsHandle == [][C26_InFlightStep]_vars /\ []C26_CompletedOnOwnHandle

\* an operation resolved on the default handle it created, although another
\* invocation had put an initialized handle in the slot while it was in flight
C26_Witness ==
  \E i \in Invocations :
    /\ inv[i].pc = "settled" /\ inv[i].k = "resolve" /\ inv[i].replaced
    /\ inv[i].client.config = EmptyObject
    /\ inv[i].sent[1].client = inv[i].client
    /\ Truthy(slot[SlotOf(inv[i].op)])
    /\ slot[SlotOf(inv[i].op)].config # EmptyObject

\* the operations of the invocations that are in flight or have completed
\* on client variable v
C28_UsersOf(v) == {i \in Invocations : inv[i].pc # "idle" /\ SlotOf(inv[i].op) = v}

\* C28: for SNS, SQS and Lambda, when overlapping invocations call the getter
\* or an operation on an absent slot and nothing initializes or resets, one
\* default handle is created per kind and every one of them uses it.
C28_OneDefaultHandle ==
  /\ nextHandle - 1 = Cardinality({v \in ClientVars : Truthy(slot[v])})
  /\ \A v \in ClientVars :
       /\ Truthy(slot[v]) => slot[v].config = EmptyObject
       /\ \A i \in C28_UsersOf(v) :
            /\ inv[i].client = slot[v]
            /\ \A n \in 1..Len(inv[i].sent) : inv[i].sent[n].client = slot[v]
       /\ (ret.var = v /\ ret.fn = "get") => (ret.k = "return" /\ ret.value = slot[v])
       /\ firstGet[v] # Undefined => firstGet[v] = slot[v]

\* two invocations have a synchronous and an asynchronous invoke in flight at
\* once and a getter call has returned: all three hold the one Lambda handle
C28_Witness ==
  /\ inv["i1"].pc = "awaiting" /\ inv["i1"].op = "invokeLambdaSync"
  /\ inv["i2"].pc = "awaiting" /\ inv["i2"].op = "invokeLambdaAsync"
  /\ ret.var = "lambdaClient" /\ ret.fn = "get" /\ ~ret.created
  /\ inv["i1"].client = inv["i2"].client
  /\ ret.value = inv["i1"].client
  /\ nextHandle = 2

\* what an operation's call and its completion do to the slot of its kind
C29_OperationStep ==
  \A i \in Invocations :
    /\ (inv[i].pc # "awaiting" /\ inv'[i].pc = "awaiting") =>
         LET v == SlotOf(inv'[i].op)
         IN /\ Truthy(inv'[i].client)
            /\ slot'[v] = inv'[i].client
            /\ Truthy(slot[v]) => slot' = slot
            /\ ~Truthy(slot[v]) =>
                 (inv'[i].client.config = EmptyObject /\ inv'[i].client.ref = nextHandle)
    /\ (inv[i].pc = "awaiting" /\ inv'[i].pc = "settled") =>
         LET v == SlotOf(inv[i].op)
         IN /\ slot' = slot
            /\ slot[v] = inv[i].client => slot'[v] = inv'[i].client

\* C29: after a publish, send or invoke operation completes, resolved or
\* failed, the slot of its kind holds the handle the operation used unless an
\* initialize or reset ran meanwhile: an operation that found the slot absent
\* leaves the default handle it created there, and no completion clears or
\* replaces a slot.
C29_CompletionKeepsSlot == [][C29_OperationStep]_vars

\* an invoke that found the slot absent was answered with a function error
\* and rejected; the default handle it created is in the slot
C29_Witness ==
  \E i \in Invocations :
    /\ inv[i].pc = "settled" /\ inv[i].k = "reject" /\ ~inv[i].replaced
    /\ inv[i].op \in {"invokeLambdaSync", "invokeLambdaAsync"}
    /\ inv[i].answer.k = "return" /\ Truthy(inv[i].answer.value.FunctionError)
    /\ inv[i].client.config = EmptyObject
    /\ slot[SlotOf(inv[i].op)] = inv[i].client

\* C30: in invokeLambdaSync the function-error check comes before the payload:
\* a response with both the error marker and a payload rejects with
\* 'Lambda function error: <marker>', whatever the payload holds; the payload
\* is not returned and a payload that is not JSON raises no parse error.
C30_FunctionErrorBeforePayload ==
  \A i \in Invocations :
    (/\ inv[i].pc = "settled" /\ inv[i].op = "invokeLambdaSync"
     /\ inv[i].answer.k = "return"
     /\ inv[i].answer.value.FunctionError # Undefined
     /\ inv[i].answer.value.Payload # Undefined)
      => /\ inv[i].k = "reject"
         /\ inv[i].error.name = "Error"
         /\ inv[i].error.name # "SyntaxError"
         /\ inv[i].error.message =
              "Lambda function error: " \o inv[i].answer.value.FunctionError.s

\* a response with the marker and a payload that is not JSON rejected the
\* call with the function error
C30_Witness ==
  \E i \in Invocations :
    /\ inv[i].pc = "settled" /\ inv[i].op = "invokeLambdaSync"
    /\ inv[i].answer.k = "return"
    /\ inv[i].answer.value = [FunctionError |-> Str("Unhandled"), Payload |-> Bytes("not json")]
    /\ inv[i].k = "reject"
    /\ inv[i].error = [name |-> "Error", message |-> "Lambda function error: Unhandled"]

(***************************************************************************)
(* The exported logger after initializeLogger.                             *)
(***************************************************************************)
\* C25: after initializeLogger(config) the module's exported logger is an
\* instance created with the supplied configuration; the instance cached
\* before the call is invalidated and is not the one callers log through.
C25_ExportedLoggerReconfigured ==
  loggerCall.fn = "initializeLogger" =>
    /\ _loggerInstance # LoadedLogger
    /\ logger # LoadedLogger
    /\ C18_BuiltFrom(logger, C18_Resolved(loggerCall.config))

====
